---- MODULE Spec2Model ----
(***************************************************************************)
(* A model of the two content pipelines of the site:                       *)
(*   convert_bib.py    bibliography text -> publication list HTML          *)
(*   update_essays.py  RSS feed -> essay cards spliced into essays.html    *)
(*                                                                         *)
(* Text is modelled as a sequence of tokens.  A token is a TLA+ string     *)
(* standing for a run of characters that the code's searches never split:  *)
(* the pieces of a marker comment, one character of a LaTeX escape, one    *)
(* character of a URL.  str.find, str.replace and the regular expressions  *)
(* are computed position by position over these sequences.  A character    *)
(* outside ASCII is the token of its code point ("U+00C5").                *)
(***************************************************************************)
EXTENDS Integers, Sequences, FiniteSets, TLC

VARIABLES
    \* replace_between_markers applied to a document, then applied again
    sp_pc, content, start_marker, end_marker, html1, html2, once, twice, direct,
    \* update_essays_html on the target file
    up_pc, file, file_before, arg_selected, arg_all, ret, opened_w,
    \* clean_latex applied to a text, applied again, and with its table reordered
    lx_pc, text, cleaned, again, reordered,
    \* convert_bib.py's main block: parse_bib_file, then generate_html
    bib_pc, entries, papers, bib_html,
    \* format_paper_html on one publication record
    fm_pc, paper, fragment,
    \* fetch_og_image on one post link
    og_pc, og_outcome, og_result,
    \* update_essays.py's main block
    pc, env, xml_text, posts, feed_slugs, slug_i, fetch_log, post_i, warnings,
    selected, essays, crash, msg

varsSplice == <<sp_pc, content, start_marker, end_marker, html1, html2, once, twice, direct>>
varsUpdate == <<up_pc, file, file_before, arg_selected, arg_all, ret, opened_w>>
varsLatex  == <<lx_pc, text, cleaned, again, reordered>>
varsBib    == <<bib_pc, entries, papers, bib_html>>
varsFormat == <<fm_pc, paper, fragment>>
varsImage  == <<og_pc, og_outcome, og_result>>
varsRun    == <<pc, env, xml_text, posts, feed_slugs, slug_i, fetch_log, post_i, warnings,
                selected, essays, crash, msg>>
vars == <<varsSplice, varsUpdate, varsLatex, varsBib, varsFormat, varsImage, varsRun>>

(***************************************************************************)
(* Bounds of the model.                                                    *)
(***************************************************************************)
MaxDocPieces == 4
MaxTextPieces == 3
MaxEntries == 2
MaxOgPieces == 3
MaxFeedItems == 2
MaxRunItems == 1

(***************************************************************************)
(* Text helpers: Python's slicing and str.find, 0-based offsets.           *)
(***************************************************************************)
\* s[:k]
Upto(s, k) == SubSeq(s, 1, k)

\* s[k:]
From(s, k) == SubSeq(s, k + 1, Len(s))

\* s[i:i+len(t)] == t
MatchAt(s, t, i) == i + Len(t) <= Len(s) /\ SubSeq(s, i + 1, i + Len(t)) = t

\* s.find(t): the lowest offset where t occurs in s, or -1
Find(s, t) ==
    LET hits == { i \in 0..Len(s) : MatchAt(s, t, i) }
    IN  IF hits = {} THEN -1
        ELSE CHOOSE i \in hits : \A j \in hits : i <= j

\* str.strip()
RECURSIVE LStrip(_)
LStrip(s) == IF s # <<>> /\ Head(s) = " " THEN LStrip(Tail(s)) ELSE s

RECURSIVE RStrip(_)
RStrip(s) ==
    IF s # <<>> /\ s[Len(s)] = " " THEN RStrip(SubSeq(s, 1, Len(s) - 1)) ELSE s

Strip(s) == RStrip(LStrip(s))

\* re.sub(r'\s+', ' ', s): every run of whitespace becomes one space
RECURSIVE CollapseWs(_)
CollapseWs(s) ==
    IF s = <<>> THEN <<>>
    ELSE IF Head(s) = " "
         THEN <<" ">> \o CollapseWs(LStrip(s))
         ELSE <<Head(s)>> \o CollapseWs(Tail(s))

RECURSIVE Flatten(_)
Flatten(ss) == IF ss = <<>> THEN <<>> ELSE Head(ss) \o Flatten(Tail(ss))

\* all sequences over S of length at most n
SeqsUpTo(S, n) == UNION { [1..k -> S] : k \in 0..n }

(***************************************************************************)
(* update_essays.py: marker comments and the splice.                       *)
(***************************************************************************)
SELECTED_START == <<"<!--", " SELECTED_START ", "-->">>
SELECTED_END   == <<"<!--", " SELECTED_END ", "-->">>
ALL_START      == <<"<!--", " ESSAYS_START ", "-->">>
ALL_END        == <<"<!--", " ESSAYS_END ", "-->">>

\* the text the splice puts before and after the body
NL     == <<"\n">>
Indent == <<"\n", "            ">>

\* Python's None, and a returned text
None     == [isNone |-> TRUE, val |-> <<>>]
Some(t)  == [isNone |-> FALSE, val |-> t]

replace_between_markers(c, sm, em, html) ==
    LET start == Find(c, sm)
        end   == Find(c, em)
    IN  IF start = -1 \/ end = -1
        THEN None
        ELSE Some(Upto(c, start + Len(sm)) \o NL \o html \o Indent \o From(c, end))

\* a mutant: the file is written as soon as the first region is spliced
update_essays_html_EarlyWrite(f, selected_html, all_html) ==
    LET c1 == replace_between_markers(f, SELECTED_START, SELECTED_END, selected_html)
    IN  IF c1.isNone
        THEN [ret |-> FALSE, file |-> f, opened_w |-> FALSE]
        ELSE LET c2 == replace_between_markers(c1.val, ALL_START, ALL_END, all_html)
             IN  IF c2.isNone
                 THEN [ret |-> FALSE, file |-> c1.val, opened_w |-> TRUE]
                 ELSE [ret |-> TRUE, file |-> c2.val, opened_w |-> TRUE]

\* update_essays_html on a file holding f: what it returns, what the file
\* holds afterwards, and whether the file was opened for writing
update_essays_html(f, selected_html, all_html) ==
    LET c1 == replace_between_markers(f, SELECTED_START, SELECTED_END, selected_html)
    IN  IF c1.isNone
        THEN [ret |-> FALSE, file |-> f, opened_w |-> FALSE]
        ELSE LET c2 == replace_between_markers(c1.val, ALL_START, ALL_END, all_html)
             IN  IF c2.isNone
                 THEN [ret |-> FALSE, file |-> f, opened_w |-> FALSE]
                 ELSE [ret |-> TRUE, file |-> c2.val, opened_w |-> TRUE]

(***************************************************************************)
(* Inputs of the splice: documents and bodies.                             *)
(***************************************************************************)
MarkerPairs == { <<SELECTED_START, SELECTED_END>>, <<ALL_START, ALL_END>> }

DocPieces == { SELECTED_START, SELECTED_END, ALL_START, ALL_END, <<"x">> }

Docs == { Flatten(ps) : ps \in SeqsUpTo(DocPieces, MaxDocPieces) }

Bodies == { <<>>, <<"card">>, <<"card", "\n", "card">>,
            SELECTED_END, ALL_START, ALL_END, <<"card">> \o ALL_END }

(***************************************************************************)
(* convert_bib.py: the text normalizer.                                    *)
(***************************************************************************)
\* str.replace(old, new): every non-overlapping occurrence, left to right
RECURSIVE Replace(_, _, _)
Replace(s, old, new) ==
    IF Len(s) < Len(old) THEN s
    ELSE IF MatchAt(s, old, 0)
         THEN new \o Replace(From(s, Len(old)), old, new)
         ELSE <<Head(s)>> \o Replace(Tail(s), old, new)

\* the table of LaTeX escapes, in the order the code applies it
LatexTable == <<
    [old |-> <<"\\", "r", "{", "A", "}">>, new |-> <<"U+00C5">>],
    [old |-> <<"\\", "A", "A", "{", "}">>, new |-> <<"U+00C5">>],
    [old |-> <<"\\", "'", "e">>,           new |-> <<"U+00E9">>],
    [old |-> <<"\\", "v", "{", "s", "}">>, new |-> <<"U+0161">>] >>

\* the replacements of the table applied in the given order of its rows
RECURSIVE ApplyTable(_, _)
ApplyTable(s, order) ==
    IF order = <<>> THEN s
    ELSE ApplyTable(Replace(s, LatexTable[Head(order)].old,
                            LatexTable[Head(order)].new), Tail(order))

StripBraces(s) == Replace(Replace(s, <<"{">>, <<>>), <<"}">>, <<>>)

\* clean_latex with the rows of the table taken in another order
clean_latex_ordered(s, order) == StripBraces(ApplyTable(s, order))

clean_latex(s) == clean_latex_ordered(s, <<1, 2, 3, 4>>)

\* the orders in which the four rows can be applied
TableOrders ==
    { o \in [1..4 -> 1..4] : \A i, j \in 1..4 : i # j => o[i] # o[j] }

(***************************************************************************)
(* convert_bib.py: publication records.  A record is a Python dict: a      *)
(* function from the names of the fields it has to their values.           *)
(***************************************************************************)
Has(p, f) == f \in DOMAIN p

Digits == { "0", "1", "2", "3", "4", "5", "6", "7", "8", "9" }

DigitVal(c) ==
    CASE c = "0" -> 0 [] c = "1" -> 1 [] c = "2" -> 2 [] c = "3" -> 3
      [] c = "4" -> 4 [] c = "5" -> 5 [] c = "6" -> 6 [] c = "7" -> 7
      [] c = "8" -> 8 [] c = "9" -> 9

\* int(s) for a string of decimal digits
RECURSIVE IntOf(_)
IntOf(s) ==
    IF s = <<>> THEN 0
    ELSE 10 * IntOf(SubSeq(s, 1, Len(s) - 1)) + DigitVal(s[Len(s)])

\* the year pattern captures exactly four digits between the delimiters
YearMatches(raw) == Len(raw) = 4 /\ \A i \in 1..4 : raw[i] \in Digits

\* the fields parse_bib_file keeps of one entry, given the value each field
\* pattern captures in the pre-processed entry (absent: the pattern does
\* not match)
ParseEntry(e) ==
    LET kept == { f \in DOMAIN e : f = "year" => YearMatches(e[f]) }
        name(f) == IF f = "eprint" THEN "arxiv" ELSE f
    IN  [ g \in { name(f) : f \in kept } |->
            CASE g = "title"   -> clean_latex(CollapseWs(Strip(e["title"])))
              [] g = "authors" -> clean_latex(CollapseWs(Strip(e["authors"])))
              [] g = "journal" -> CollapseWs(Strip(e["journal"]))
              [] g = "year"    -> e["year"]
              [] g = "arxiv"   -> Strip(e["eprint"])
              [] OTHER         -> Strip(e[g]) ]

\* the sort key: int(x.get('year', '0'))
YearKey(p) == IF Has(p, "year") THEN IntOf(p["year"]) ELSE IntOf(<<"0">>)

\* p put into a list sorted by descending key, after the elements whose key
\* is at least its own: list.sort is stable, with reverse=True too
RECURSIVE InsertDesc(_, _)
InsertDesc(sorted, p) ==
    IF sorted = <<>> THEN <<p>>
    ELSE IF YearKey(Head(sorted)) >= YearKey(p)
         THEN <<Head(sorted)>> \o InsertDesc(Tail(sorted), p)
         ELSE <<p>> \o sorted

\* a mutant: ascending order (reverse=True forgotten)
RECURSIVE InsertAsc(_, _)
InsertAsc(sorted, p) ==
    IF sorted = <<>> THEN <<p>>
    ELSE IF YearKey(Head(sorted)) <= YearKey(p)
         THEN <<Head(sorted)>> \o InsertAsc(Tail(sorted), p)
         ELSE <<p>> \o sorted

RECURSIVE SortAscending(_)
SortAscending(ps) ==
    IF ps = <<>> THEN <<>>
    ELSE InsertAsc(SortAscending(SubSeq(ps, 1, Len(ps) - 1)), ps[Len(ps)])

\* papers.sort(key=lambda x: int(x.get('year', '0')), reverse=True)
RECURSIVE SortByYear(_)
SortByYear(ps) ==
    IF ps = <<>> THEN <<>>
    ELSE InsertDesc(SortByYear(SubSeq(ps, 1, Len(ps) - 1)), ps[Len(ps)])

\* the records of the entries, the empty ones dropped ("if paper:")
RECURSIVE NonEmptyRecords(_)
NonEmptyRecords(es) ==
    IF es = <<>> THEN <<>>
    ELSE LET p == ParseEntry(Head(es))
         IN  (IF DOMAIN p = {} THEN <<>> ELSE <<p>>) \o NonEmptyRecords(Tail(es))

parse_bib_file(es) == SortByYear(NonEmptyRecords(es))

(***************************************************************************)
(* convert_bib.py: the renderer.                                           *)
(***************************************************************************)
HighlightSpan == <<"<span class=\"highlight-author\">", "U+00C5", ".F.</span>">>

\* the number of whitespace tokens at the head of s
RECURSIVE WsRun(_)
WsRun(s) == IF s # <<>> /\ Head(s) = " " THEN 1 + WsRun(Tail(s)) ELSE 0

\* re.sub of the pattern  a \s{min,} b  by the highlight span
RECURSIVE SubName(_, _, _, _)
SubName(s, a, min, b) ==
    IF s = <<>> THEN <<>>
    ELSE LET rest == From(s, Len(a))
             ws   == WsRun(rest)
             hit  == /\ MatchAt(s, a, 0)
                     /\ ws >= min
                     /\ MatchAt(rest, b, ws)
         IN  IF hit
             THEN HighlightSpan \o SubName(From(rest, ws + Len(b)), a, min, b)
             ELSE <<Head(s)>> \o SubName(Tail(s), a, min, b)

highlight_author_name(authors) ==
    SubName(SubName(authors, <<"Folkestad", ",">>, 0, <<"U+00C5", "smund">>),
            <<"U+00C5", "smund">>, 1, <<"Folkestad">>)

\* sep.join(parts)
RECURSIVE Join(_, _)
Join(sep, parts) ==
    IF parts = <<>> THEN <<>>
    ELSE IF Len(parts) = 1 THEN Head(parts)
         ELSE Head(parts) \o sep \o Join(sep, Tail(parts))

\* a mutant: the DOI is preferred to the arXiv id
TitleLink_DoiFirst(p) ==
    IF Has(p, "doi") THEN Some(<<"https://doi.org/">> \o p["doi"])
    ELSE IF Has(p, "arxiv") THEN Some(<<"https://arxiv.org/abs/">> \o p["arxiv"])
    ELSE None

\* the link of the title, or None
TitleLink(p) ==
    IF Has(p, "arxiv") THEN Some(<<"https://arxiv.org/abs/">> \o p["arxiv"])
    ELSE IF Has(p, "doi") THEN Some(<<"https://doi.org/">> \o p["doi"])
    ELSE None

TitleLine(p) ==
    LET title == IF Has(p, "title") THEN p["title"] ELSE <<"Untitled">>
        link  == TitleLink(p)
    IN  IF ~link.isNone /\ link.val # <<>>
        THEN <<"<a href=\"">> \o link.val
             \o <<"\" target=\"_blank\" class=\"paper-title\">">> \o title \o <<"</a>">>
        ELSE <<"<span class=\"paper-title\">">> \o title \o <<"</span>">>

AuthorsLines(p) ==
    IF Has(p, "authors")
    THEN << <<"<div class=\"paper-authors\">">>
            \o highlight_author_name(p["authors"]) \o <<"</div>">> >>
    ELSE <<>>

VenueParts(p) ==
    (IF Has(p, "journal")
     THEN << p["journal"]
             \o (IF Has(p, "volume") THEN <<" ">> \o p["volume"] ELSE <<>>)
             \o (IF Has(p, "pages") THEN <<", ">> \o p["pages"] ELSE <<>>) >>
     ELSE IF Has(p, "arxiv") THEN << <<"arXiv:">> \o p["arxiv"] >>
     ELSE <<>>)
    \o (IF Has(p, "year") THEN << <<"(">> \o p["year"] \o <<")">> >> ELSE <<>>)

VenueLines(p) ==
    IF VenueParts(p) # <<>>
    THEN << <<"<div class=\"paper-venue\">">>
            \o Join(<<" ">>, VenueParts(p)) \o <<"</div>">> >>
    ELSE <<>>

format_paper_html(p) ==
    <<"<div class=\"paper-entry\">", "\n    ">>
    \o Join(<<"\n    ">>, <<TitleLine(p)>> \o AuthorsLines(p) \o VenueLines(p))
    \o <<"\n</div>">>

RECURSIVE Fragments(_)
Fragments(ps) ==
    IF ps = <<>> THEN <<>>
    ELSE <<format_paper_html(Head(ps))>> \o Fragments(Tail(ps))

\* convert_bib.generate_html
generate_html_bib(ps) ==
    Join(<<"\n\n">>,
         << <<"<div class=\"publications-list\">">> >> \o Fragments(ps)
         \o << <<"</div>">> >>)

(***************************************************************************)
(* update_essays.py: the image resolver.                                   *)
(***************************************************************************)
SUBSTACK_CDN ==
    <<"https://substackcdn.com/image/fetch/w_320,h_213,c_fill,f_auto,q_auto:good,fl_progressive:steep,g_center/">>

\* the storage-bucket prefix the resolver looks for, plain and percent-encoded
S3Prefix    == "https://substack-post-media.s3.amazonaws.com/public/images/"
S3PrefixEnc == "https%3A%2F%2Fsubstack-post-media.s3.amazonaws.com%2Fpublic%2Fimages%2F"

\* urllib.parse.unquote, token by token: each percent escape of the
\* vocabulary decodes to its character, a token without an escape is kept
UnquoteToken(t) ==
    CASE t = S3PrefixEnc -> S3Prefix
      [] t = "%26" -> "&"
      [] t = "%20" -> " "
      [] t = "%22" -> "\""
      [] OTHER -> t

unquote(s) == [ i \in 1..Len(s) |-> UnquoteToken(s[i]) ]

\* the class [^\s"&] of the bucket pattern
BucketChar(t) == t \notin { " ", "\"", "&" }

\* the number of tokens of the class at the head of s
RECURSIVE BucketRun(_)
BucketRun(s) ==
    IF s # <<>> /\ BucketChar(Head(s)) THEN 1 + BucketRun(Tail(s)) ELSE 0

\* re.search of the bucket pattern: the prefix and at least one character of
\* the class, as many as follow
S3Search(raw_url) ==
    LET hits == { i \in 1..Len(raw_url) :
                    raw_url[i] = S3Prefix /\ BucketRun(From(raw_url, i)) >= 1 }
    IN  IF hits = {} THEN None
        ELSE LET i == CHOOSE x \in hits : \A y \in hits : x <= y
             IN  Some(SubSeq(raw_url, i, i + BucketRun(From(raw_url, i))))

\* a mutant: the og:image itself is returned when it holds no bucket URL
fetch_og_image_RawFallback(outcome) ==
    IF outcome.kind = "error"
    THEN [raised |-> FALSE, val |-> <<>>, warned |-> TRUE]
    ELSE IF outcome.og.isNone
    THEN [raised |-> FALSE, val |-> <<>>, warned |-> FALSE]
    ELSE LET raw_url == unquote(outcome.og.val)
             s3_match == S3Search(raw_url)
         IN  [raised |-> FALSE,
              val |-> IF s3_match.isNone THEN raw_url
                      ELSE SUBSTACK_CDN \o s3_match.val,
              warned |-> FALSE]

\* a mutant: the page is fetched outside the try block
fetch_og_image_NoTry(outcome) ==
    IF outcome.kind = "error"
    THEN [raised |-> TRUE, val |-> <<>>, warned |-> FALSE]
    ELSE IF outcome.og.isNone
    THEN [raised |-> FALSE, val |-> <<>>, warned |-> FALSE]
    ELSE LET s3_match == S3Search(unquote(outcome.og.val))
         IN  [raised |-> FALSE,
              val |-> IF s3_match.isNone THEN <<>>
                      ELSE SUBSTACK_CDN \o s3_match.val,
              warned |-> FALSE]

\* fetch_og_image, given what fetching the page does: an exception
\* (kind "error"), or a page in which the og:image pattern captures og (None:
\* no match).  raised: an exception leaves the function; warned: the
\* warning is printed.
fetch_og_image(outcome) ==
    IF outcome.kind = "error"
    THEN [raised |-> FALSE, val |-> <<>>, warned |-> TRUE]
    ELSE IF outcome.og.isNone
    THEN [raised |-> FALSE, val |-> <<>>, warned |-> FALSE]
    ELSE LET s3_match == S3Search(unquote(outcome.og.val))
         IN  [raised |-> FALSE,
              val |-> IF s3_match.isNone THEN <<>>
                      ELSE SUBSTACK_CDN \o s3_match.val,
              warned |-> FALSE]

(***************************************************************************)
(* update_essays.py: the post parser.                                      *)
(***************************************************************************)
\* html.unescape, token by token
UnescapeToken(t) ==
    CASE t = "&amp;" -> "&"
      [] t = "&lt;" -> "<"
      [] t = "&gt;" -> ">"
      [] OTHER -> t

unescape(s) == [ i \in 1..Len(s) |-> UnescapeToken(s[i]) ]

\* re.sub(r"<[^>]+>", "", s): a "<", at least one token other than ">", and
\* the first ">" after them are removed
RECURSIVE StripTags(_)
StripTags(s) ==
    IF s = <<>> THEN <<>>
    ELSE LET close == Find(Tail(s), <<">">>)
         IN  IF Head(s) = "<" /\ close >= 1
             THEN StripTags(From(Tail(s), close + 1))
             ELSE <<Head(s)>> \o StripTags(Tail(s))

Months == { "Jan", "Dec" }
Days   == { "02", "15" }
Years  == { "2023", "2024" }

\* parsedate_to_datetime accepts: weekday, day, month, year and time of day
ValidDate(d) ==
    /\ Len(d) = 9
    /\ d[1] \in { "Mon", "Sun" } /\ d[2] = ", " /\ d[3] \in Days /\ d[4] = " "
    /\ d[5] \in Months /\ d[6] = " " /\ d[7] \in Years /\ d[8] = " "
    /\ d[9] = "10:00:00 GMT"

\* the display date: strftime("%b %d, %Y") of the parsed date, or "" when
\* there is no date or it does not parse
DisplayDate(pub_date) ==
    IF pub_date # <<>> /\ ValidDate(pub_date)
    THEN <<pub_date[5], " ", pub_date[3], ", ", pub_date[7]>>
    ELSE <<>>

ParseItem(item) ==
    [ title       |-> unescape(item.title),
      link        |-> item.link,
      description |-> unescape(Strip(StripTags(item.description))),
      date        |-> DisplayDate(item.pubDate),
      image       |-> <<>> ]

\* parse_posts on a well-formed feed: one post per item, in feed order
parse_posts(items) == [ i \in 1..Len(items) |-> ParseItem(items[i]) ]

(***************************************************************************)
(* update_essays.py: slugs and the curated selection.                      *)
(***************************************************************************)
SELECTED_SLUGS == <<
    <<"spirits-and-the-incompleteness-of">>,
    <<"equations-that-demand-beauty">>,
    <<"god-is-nan">>,
    <<"beauty-as-entropic-fine-tuning">> >>

Site == "https://extramediumplease.substack.com"

\* the class [^/?] of the slug pattern
SlugChar(t) == t \notin { "/", "?", "/p/" }

RECURSIVE SlugRun(_)
SlugRun(s) == IF s # <<>> /\ SlugChar(Head(s)) THEN 1 + SlugRun(Tail(s)) ELSE 0

\* re.search(r'/p/([^/?]+)', link): the group, or None
SlugOf(link) ==
    LET hits == { i \in 1..Len(link) :
                    link[i] = "/p/" /\ SlugRun(From(link, i)) >= 1 }
    IN  IF hits = {} THEN None
        ELSE LET i == CHOOSE x \in hits : \A y \in hits : x <= y
             IN  Some(SubSeq(link, i + 1, i + SlugRun(From(link, i))))

\* the set of the slugs of the posts
SlugsOf(ps) ==
    { SlugOf(ps[i].link).val : i \in { j \in 1..Len(ps) : ~SlugOf(ps[j].link).isNone } }

\* a mutant: every selected essay is fetched directly
NeedsFetch_Always(slug, slugs) == TRUE

\* "if slug not in feed_slugs"
NeedsFetch(slug, slugs) == slug \notin slugs

PostUrl(slug) == <<Site, "/p/">> \o slug

\* the body of the loop over SELECTED_SLUGS for a slug that is not in the
\* feed, given what fetching its page does: an exception, or a page in which
\* the og:title and og:description patterns capture title and desc
direct_fetch(slug, outcome) ==
    IF outcome.kind = "error"
    THEN [raised |-> FALSE, appended |-> <<>>, warned |-> TRUE]
    ELSE [raised |-> FALSE,
          appended |-> << [ title |-> IF outcome.title.isNone THEN slug
                                      ELSE unescape(outcome.title.val),
                            link |-> PostUrl(slug),
                            description |-> IF outcome.desc.isNone THEN <<>>
                                            ELSE unescape(outcome.desc.val),
                            date |-> <<>>,
                            image |-> <<>> ] >>,
          warned |-> FALSE]

\* by_slug: the last post of each slug
BySlug(ps) ==
    [ s \in SlugsOf(ps) |->
        LET at == { i \in 1..Len(ps) :
                      ~SlugOf(ps[i].link).isNone /\ SlugOf(ps[i].link).val = s }
        IN  ps[CHOOSE i \in at : \A j \in at : j <= i] ]

\* a mutant: the selected posts in the order of the working set
RECURSIVE Selected_FeedOrder(_, _)
Selected_FeedOrder(ps, slugs) ==
    IF ps = <<>> THEN <<>>
    ELSE LET sl == SlugOf(Head(ps).link)
             wanted == /\ ~sl.isNone
                       /\ \E i \in 1..Len(slugs) : slugs[i] = sl.val
                       /\ sl.val \notin SlugsOf(Tail(ps))
         IN  (IF wanted THEN <<Head(ps)>> ELSE <<>>)
             \o Selected_FeedOrder(Tail(ps), slugs)

\* [by_slug[s] for s in SELECTED_SLUGS if s in by_slug]
RECURSIVE Selected(_, _)
Selected(ps, slugs) ==
    IF slugs = <<>> THEN <<>>
    ELSE (IF Head(slugs) \in SlugsOf(ps) THEN <<BySlug(ps)[Head(slugs)]>> ELSE <<>>)
         \o Selected(ps, Tail(slugs))

\* one card of update_essays.generate_html
Card(p) ==
    <<"            <a href=\"">> \o p.link
    \o <<"\" target=\"_blank\" class=\"essay-card\">", "\n", "                ">>
    \o (IF p.image # <<>>
        THEN <<"<img src=\"">> \o p.image \o <<"\" alt=\"">> \o p.title \o <<"\">">>
        ELSE <<>>)
    \o <<"\n", "                <div class=\"essay-card-text\">", "\n",
         "                    <h3>">> \o p.title \o <<"</h3>", "\n",
         "                    <p>">> \o p.description \o <<"</p>", "\n",
         "                    ">>
    \o (IF p.date # <<>>
        THEN <<"<span class=\"essay-date\">">> \o p.date \o <<"</span>">>
        ELSE <<>>)
    \o <<"\n", "                </div>", "\n", "            </a>">>

\* update_essays.generate_html
generate_html(ps) == Join(<<"\n">>, [ i \in 1..Len(ps) |-> Card(ps[i]) ])

(***************************************************************************)
(* Inputs of the feed pipeline: what the network and the disk hold.        *)
(***************************************************************************)
OgPieces == { S3Prefix, S3PrefixEnc, "a.png", "&", "%26", "%22", "\"",
              "https://substackcdn.com/image/fetch/w_1200/" }

\* what the og:image pattern can capture: at least one character, no quote
OgValues ==
    { v \in SeqsUpTo(OgPieces, MaxOgPieces) :
        v # <<>> /\ \A i \in 1..Len(v) : v[i] # "\"" }

FetchError == [kind |-> "error"]

OgOutcomes ==
    { FetchError, [kind |-> "page", og |-> None] }
    \cup { [kind |-> "page", og |-> Some(v)] : v \in OgValues }

PostLink(slug) == <<Site, "/p/">> \o slug

GoodDate == <<"Mon", ", ", "02", " ", "Jan", " ", "2023", " ", "10:00:00 GMT">>

\* the items a feed is made of
FeedItems == {
    [ title |-> <<"Spirits ", "&amp;", " more">>, link |-> PostLink(SELECTED_SLUGS[1]),
      description |-> <<"<", "p", ">", "Hello ", "&amp;", " welcome", "<", "/p", ">">>,
      pubDate |-> GoodDate ],
    [ title |-> <<"Equations">>, link |-> PostLink(SELECTED_SLUGS[2]) \o <<"?", "utm=rss">>,
      description |-> <<" ", "plain", " ">>, pubDate |-> <<"yesterday">> ],
    [ title |-> <<"Equations, again">>, link |-> PostLink(SELECTED_SLUGS[2]),
      description |-> <<>>, pubDate |-> GoodDate ],
    [ title |-> <<"Other">>, link |-> PostLink(<<"other-post">>),
      description |-> <<"&lt;", "i", "&gt;">>, pubDate |-> GoodDate ],
    [ title |-> <<"About">>, link |-> <<Site, "/", "about">>,
      description |-> <<"<", ">", "x">>, pubDate |-> <<>> ] }

Feed(items) == [wellformed |-> TRUE, items |-> items]

\* a body that is not a well-formed XML document
MalformedFeed == [wellformed |-> FALSE, items |-> <<>>]

PageBoth ==
    [kind |-> "page", title |-> Some(<<"Beauty ", "&amp;", " nan">>),
     desc |-> Some(<<"About ", "&lt;", "it">>)]

PageTitleOnly ==
    [kind |-> "page", title |-> Some(<<"God is nan">>), desc |-> None]

PageBare == [kind |-> "page", title |-> None, desc |-> None]

ImageFound == [kind |-> "page", og |-> Some(<<S3PrefixEnc, "a.png">>)]

GoodDoc == <<"<h2>">> \o SELECTED_START \o <<"old">> \o SELECTED_END
           \o ALL_START \o <<"old">> \o ALL_END \o <<"</h2>">>

\* a target file in which the end marker of the full list is missing
BadDoc == SELECTED_START \o SELECTED_END \o ALL_START

\* the runs in which the feed is served and the target file is in order
EnvSelected ==
    [ feed_fetch |-> { "ok" },
      feeds      |-> { Feed(items) : items \in SeqsUpTo(FeedItems, MaxFeedItems) },
      pages      |-> { FetchError, PageBoth, PageTitleOnly, PageBare },
      images     |-> { ImageFound },
      files      |-> { Some(GoodDoc) } ]

\* the runs in which every step may fail
EnvRun ==
    [ feed_fetch |-> { "ok", "error" },
      feeds      |-> { MalformedFeed }
                     \cup { Feed(items) : items \in SeqsUpTo(FeedItems, MaxRunItems) },
      pages      |-> { FetchError, PageBoth },
      images     |-> { FetchError, ImageFound },
      files      |-> { None, Some(GoodDoc), Some(BadDoc) } ]

EnvOf(name) == IF name = "selected" THEN EnvSelected ELSE EnvRun

(***************************************************************************)
(* Inputs of the bibliography pipeline.                                    *)
(***************************************************************************)
\* the dicts with exactly the fields fs, each with one of its values
RECURSIVE RecordsOver(_, _)
RecordsOver(fs, values) ==
    IF fs = {} THEN { <<>> }
    ELSE LET f == CHOOSE x \in fs : TRUE
         IN  { (f :> v) @@ r : v \in values[f], r \in RecordsOver(fs \ {f}, values) }

\* the dicts with some of the fields
PartialRecords(values) ==
    UNION { RecordsOver(fs, values) : fs \in SUBSET DOMAIN values }

LatexPieces == {
    <<"\\", "r", "{", "A", "}">>, <<"\\", "A", "A", "{", "}">>,
    <<"\\", "'", "e">>, <<"\\", "v", "{", "s", "}">>,
    <<"\\">>, <<"{">>, <<"}">>, <<"'", "e">>, <<"A">>, <<"r">> }

Texts == { Flatten(ps) : ps \in SeqsUpTo(LatexPieces, MaxTextPieces) }

\* what the field patterns capture in an entry of the bibliography
EntryValues ==
    [ title  |-> { <<"T">>, <<" ", "{", "T", " ", " ", "U">> },
      year   |-> { <<"0", "0", "0", "0">>, <<"2", "0", "1", "9">>,
                   <<"2", "0", "2", "1">>, <<"2", "1">> },
      eprint |-> { <<"2101.00001">> } ]

Entries == PartialRecords(EntryValues)

\* the publication records format_paper_html is given
PaperValues ==
    [ title   |-> { <<"T">> },
      authors |-> { <<"Folkestad", ",", " ", "U+00C5", "smund", " and ", "Someone Else">>,
                    <<"U+00C5", "smund", " ", "Folkestad">> },
      year    |-> { <<"2", "0", "2", "1">> },
      journal |-> { <<"JHEP">> },
      volume  |-> { <<"07">> },
      pages   |-> { <<"1-20">> },
      arxiv   |-> { <<"2101.00001">>, <<"2207.00002">> },
      doi     |-> { <<"10.1/x">> } ]

Papers == PartialRecords(PaperValues)

(***************************************************************************)
(* SpecSplice: replace_between_markers as a function of its arguments.     *)
(*   once   = replace(content, B)                                          *)
(*   twice  = replace(once, B2)                                            *)
(*   direct = replace(content, B2)                                         *)
(***************************************************************************)
IdleLatex ==
    /\ lx_pc = "off" /\ text = <<>> /\ cleaned = <<>> /\ again = <<>>
    /\ reordered = <<>>

IdleBib ==
    /\ bib_pc = "off" /\ entries = <<>> /\ papers = <<>> /\ bib_html = <<>>

IdleFormat ==
    /\ fm_pc = "off" /\ paper = <<>> /\ fragment = <<>>

IdleImage ==
    /\ og_pc = "off" /\ og_outcome = [kind |-> "none"] /\ og_result = <<>>

IdleRun ==
    /\ pc = "off" /\ env = "none" /\ xml_text = [wellformed |-> FALSE, items |-> <<>>] /\ posts = <<>>
    /\ feed_slugs = {} /\ slug_i = 0 /\ fetch_log = <<>> /\ post_i = 0
    /\ warnings = <<>>
    /\ selected = <<>> /\ essays = None /\ crash = "none" /\ msg = "none"

IdleSplice ==
    /\ sp_pc = "off" /\ content = <<>> /\ start_marker = <<>> /\ end_marker = <<>>
    /\ html1 = <<>> /\ html2 = <<>> /\ once = None /\ twice = None /\ direct = None

IdleUpdate ==
    /\ up_pc = "off" /\ file = <<>> /\ file_before = <<>> /\ ret = FALSE
    /\ arg_selected = <<>> /\ arg_all = <<>> /\ opened_w = FALSE

InitSplice ==
    /\ sp_pc = "start"
    /\ content \in Docs
    /\ \E mp \in MarkerPairs : start_marker = mp[1] /\ end_marker = mp[2]
    /\ html1 \in Bodies /\ html2 \in Bodies
    /\ once = None /\ twice = None /\ direct = None
    /\ IdleUpdate /\ IdleLatex /\ IdleBib /\ IdleFormat /\ IdleImage /\ IdleRun

Splice ==
    /\ sp_pc = "start"
    /\ once' = replace_between_markers(content, start_marker, end_marker, html1)
    /\ sp_pc' = "spliced"
    /\ UNCHANGED <<content, start_marker, end_marker, html1, html2, twice, direct>>
    /\ UNCHANGED <<varsUpdate, varsLatex, varsBib, varsFormat, varsImage, varsRun>>

Resplice ==
    /\ sp_pc = "spliced"
    /\ twice' = IF once.isNone THEN None
                ELSE replace_between_markers(once.val, start_marker, end_marker, html2)
    /\ direct' = replace_between_markers(content, start_marker, end_marker, html2)
    /\ sp_pc' = "done"
    /\ UNCHANGED <<content, start_marker, end_marker, html1, html2, once>>
    /\ UNCHANGED <<varsUpdate, varsLatex, varsBib, varsFormat, varsImage, varsRun>>

NextSplice == Splice \/ Resplice

SpecSplice == InitSplice /\ [][NextSplice]_vars

(***************************************************************************)
(* SpecUpdate: update_essays_html called on a target file.                 *)
(***************************************************************************)
InitUpdate ==
    /\ up_pc = "start"
    /\ file \in Docs
    /\ file_before = file
    /\ arg_selected = <<>> /\ arg_all = <<>>
    /\ ret = FALSE
    /\ opened_w = FALSE
    /\ IdleSplice /\ IdleLatex /\ IdleBib /\ IdleFormat /\ IdleImage /\ IdleRun

UpdateEssaysHtml ==
    /\ up_pc = "start"
    /\ \E selected_html \in Bodies, all_html \in Bodies :
         LET r == update_essays_html(file, selected_html, all_html)
         IN  /\ arg_selected' = selected_html
             /\ arg_all' = all_html
             /\ file' = r.file
             /\ ret' = r.ret
             /\ opened_w' = r.opened_w
    /\ up_pc' = "returned"
    /\ UNCHANGED file_before
    /\ UNCHANGED <<varsSplice, varsLatex, varsBib, varsFormat, varsImage, varsRun>>

NextUpdate == UpdateEssaysHtml

SpecUpdate == InitUpdate /\ [][NextUpdate]_vars

(***************************************************************************)
(* SpecLatex: clean_latex as a function of its argument.                   *)
(***************************************************************************)
InitLatex ==
    /\ lx_pc = "start"
    /\ text \in Texts
    /\ cleaned = <<>> /\ again = <<>> /\ reordered = <<>>
    /\ IdleSplice /\ IdleUpdate /\ IdleBib /\ IdleFormat /\ IdleImage /\ IdleRun

CleanLatex ==
    /\ lx_pc = "start"
    /\ cleaned' = clean_latex(text)
    /\ lx_pc' = "cleaned"
    /\ UNCHANGED <<text, again, reordered>>
    /\ UNCHANGED <<varsSplice, varsUpdate, varsBib, varsFormat, varsImage, varsRun>>

CleanAgain ==
    /\ lx_pc = "cleaned"
    /\ again' = clean_latex(cleaned)
    /\ lx_pc' = "twice"
    /\ UNCHANGED <<text, cleaned, reordered>>
    /\ UNCHANGED <<varsSplice, varsUpdate, varsBib, varsFormat, varsImage, varsRun>>

CleanReordered ==
    /\ lx_pc = "twice"
    /\ \E order \in TableOrders : reordered' = clean_latex_ordered(text, order)
    /\ lx_pc' = "done"
    /\ UNCHANGED <<text, cleaned, again>>
    /\ UNCHANGED <<varsSplice, varsUpdate, varsBib, varsFormat, varsImage, varsRun>>

NextLatex == CleanLatex \/ CleanAgain \/ CleanReordered

SpecLatex == InitLatex /\ [][NextLatex]_vars

(***************************************************************************)
(* SpecBib: the main block of convert_bib.py on a bibliography.            *)
(***************************************************************************)
InitBib ==
    /\ bib_pc = "start"
    /\ entries \in SeqsUpTo(Entries, MaxEntries)
    /\ papers = <<>> /\ bib_html = <<>>
    /\ IdleSplice /\ IdleUpdate /\ IdleLatex /\ IdleFormat /\ IdleImage /\ IdleRun

ParseBibFile ==
    /\ bib_pc = "start"
    /\ papers' = parse_bib_file(entries)
    /\ bib_pc' = "parsed"
    /\ UNCHANGED <<entries, bib_html>>
    /\ UNCHANGED <<varsSplice, varsUpdate, varsLatex, varsFormat, varsImage, varsRun>>

GenerateHtml ==
    /\ bib_pc = "parsed"
    /\ bib_html' = generate_html_bib(papers)
    /\ bib_pc' = "printed"
    /\ UNCHANGED <<entries, papers>>
    /\ UNCHANGED <<varsSplice, varsUpdate, varsLatex, varsFormat, varsImage, varsRun>>

NextBib == ParseBibFile \/ GenerateHtml

SpecBib == InitBib /\ [][NextBib]_vars

(***************************************************************************)
(* SpecFormat: format_paper_html on one publication record.                *)
(***************************************************************************)
InitFormat ==
    /\ fm_pc = "start"
    /\ paper \in Papers
    /\ fragment = <<>>
    /\ IdleSplice /\ IdleUpdate /\ IdleLatex /\ IdleBib /\ IdleImage /\ IdleRun

FormatPaperHtml ==
    /\ fm_pc = "start"
    /\ fragment' = format_paper_html(paper)
    /\ fm_pc' = "formatted"
    /\ UNCHANGED paper
    /\ UNCHANGED <<varsSplice, varsUpdate, varsLatex, varsBib, varsImage, varsRun>>

NextFormat == FormatPaperHtml

SpecFormat == InitFormat /\ [][NextFormat]_vars

(***************************************************************************)
(* SpecImage: fetch_og_image on one post link.                             *)
(***************************************************************************)
InitImage ==
    /\ og_pc = "start"
    /\ og_outcome \in OgOutcomes
    /\ og_result = <<>>
    /\ IdleSplice /\ IdleUpdate /\ IdleLatex /\ IdleBib /\ IdleFormat /\ IdleRun

FetchOgImage ==
    /\ og_pc = "start"
    /\ og_result' = fetch_og_image(og_outcome)
    /\ og_pc' = "returned"
    /\ UNCHANGED og_outcome
    /\ UNCHANGED <<varsSplice, varsUpdate, varsLatex, varsBib, varsFormat, varsRun>>

NextImage == FetchOgImage

SpecImage == InitImage /\ [][NextImage]_vars

(***************************************************************************)
(* The main block of update_essays.py.                                     *)
(*   start -> fetched -> slugs -> images -> done, or crashed when an       *)
(*   exception leaves a step (crash names the step)                        *)
(***************************************************************************)
InitRun ==
    /\ pc = "start"
    /\ xml_text = MalformedFeed
    /\ posts = <<>> /\ feed_slugs = {} /\ slug_i = 0 /\ fetch_log = <<>>
    /\ post_i = 0 /\ warnings = <<>> /\ selected = <<>>
    /\ essays \in EnvOf(env).files
    /\ crash = "none" /\ msg = "none"
    /\ IdleSplice /\ IdleUpdate /\ IdleLatex /\ IdleBib /\ IdleFormat /\ IdleImage

Crash(step) ==
    /\ pc' = "crashed"
    /\ crash' = step

\* xml_text = fetch_feed()
FetchFeed ==
    /\ pc = "start"
    /\ \E o \in EnvOf(env).feed_fetch, body \in EnvOf(env).feeds :
         IF o = "error"
         THEN Crash("fetch_feed") /\ UNCHANGED xml_text
         ELSE xml_text' = body /\ pc' = "fetched" /\ UNCHANGED crash
    /\ UNCHANGED <<env, posts, feed_slugs, slug_i, fetch_log, post_i, warnings,
                   selected, essays, msg>>
    /\ UNCHANGED <<varsSplice, varsUpdate, varsLatex, varsBib, varsFormat, varsImage>>

\* posts = parse_posts(xml_text), and the slugs of the feed
ParsePosts ==
    /\ pc = "fetched"
    /\ IF ~xml_text.wellformed
       THEN Crash("parse_posts") /\ UNCHANGED <<posts, feed_slugs, slug_i>>
       ELSE /\ posts' = parse_posts(xml_text.items)
            /\ feed_slugs' = SlugsOf(posts')
            /\ slug_i' = 1
            /\ pc' = "slugs"
            /\ UNCHANGED crash
    /\ UNCHANGED <<env, xml_text, fetch_log, post_i, warnings, selected, essays, msg>>
    /\ UNCHANGED <<varsSplice, varsUpdate, varsLatex, varsBib, varsFormat, varsImage>>

\* one turn of "for slug in SELECTED_SLUGS"
CheckSlug ==
    /\ pc = "slugs"
    /\ slug_i <= Len(SELECTED_SLUGS)
    /\ LET slug == SELECTED_SLUGS[slug_i]
           last == slug_i = Len(SELECTED_SLUGS)
       IN  IF NeedsFetch(slug, feed_slugs)
           THEN \E o \in EnvOf(env).pages :
                  LET r == direct_fetch(slug, o)
                  IN  IF r.raised
                      THEN Crash("direct_fetch")
                           /\ UNCHANGED <<posts, fetch_log, warnings, slug_i, post_i>>
                      ELSE /\ posts' = posts \o r.appended
                           /\ fetch_log' = Append(fetch_log, [slug |-> slug, outcome |-> o])
                           /\ warnings' = IF r.warned
                                          THEN Append(warnings, "could not fetch page")
                                          ELSE warnings
                           /\ slug_i' = slug_i + 1
                           /\ pc' = IF last THEN "images" ELSE "slugs"
                           /\ post_i' = IF last THEN 1 ELSE post_i
                           /\ UNCHANGED crash
           ELSE /\ slug_i' = slug_i + 1
                /\ pc' = IF last THEN "images" ELSE "slugs"
                /\ post_i' = IF last THEN 1 ELSE post_i
                /\ UNCHANGED <<posts, fetch_log, warnings, crash>>
    /\ UNCHANGED <<env, xml_text, feed_slugs, selected, essays, msg>>
    /\ UNCHANGED <<varsSplice, varsUpdate, varsLatex, varsBib, varsFormat, varsImage>>

\* one turn of "for p in posts": the image of the post
FetchImage ==
    /\ pc = "images"
    /\ post_i <= Len(posts)
    /\ IF posts[post_i].image = <<>>
       THEN \E o \in EnvOf(env).images :
              LET r == fetch_og_image(o)
              IN  IF r.raised
                  THEN Crash("fetch_og_image") /\ UNCHANGED <<posts, warnings, post_i>>
                  ELSE /\ posts' = [posts EXCEPT ![post_i].image = r.val]
                       /\ warnings' = IF r.warned
                                      THEN Append(warnings, "could not fetch OG image")
                                      ELSE warnings
                       /\ post_i' = post_i + 1
                       /\ UNCHANGED <<pc, crash>>
       ELSE post_i' = post_i + 1 /\ UNCHANGED <<posts, warnings, pc, crash>>
    /\ UNCHANGED <<env, xml_text, feed_slugs, slug_i, fetch_log, selected, essays, msg>>
    /\ UNCHANGED <<varsSplice, varsUpdate, varsLatex, varsBib, varsFormat, varsImage>>

\* the lookup by slug, the two lists of cards and update_essays_html
UpdateEssays ==
    /\ pc = "images"
    /\ post_i > Len(posts)
    /\ selected' = Selected(posts, SELECTED_SLUGS)
    /\ IF essays.isNone
       THEN Crash("update_essays_html") /\ UNCHANGED <<essays, msg>>
       ELSE LET r == update_essays_html(essays.val, generate_html(selected'),
                                        generate_html(posts))
            IN  /\ essays' = Some(r.file)
                /\ msg' = IF r.ret THEN "Done!" ELSE "Failed to update."
                /\ pc' = "done"
                /\ UNCHANGED crash
    /\ UNCHANGED <<env, xml_text, posts, feed_slugs, slug_i, fetch_log, post_i, warnings>>
    /\ UNCHANGED <<varsSplice, varsUpdate, varsLatex, varsBib, varsFormat, varsImage>>

NextRun == FetchFeed \/ ParsePosts \/ CheckSlug \/ FetchImage \/ UpdateEssays

\* every step of the run may fail
InitAnyRun == env = "run" /\ InitRun

Spec == InitAnyRun /\ [][NextRun]_vars

\* the feed is served and the target file is in order
InitServedRun == env = "selected" /\ InitRun

SpecSelected == InitServedRun /\ [][NextRun]_vars

(***************************************************************************)
(* Claims about the splice.                                                *)
(***************************************************************************)
\* a marker of the pair is missing from document c
Missing(c, sm, em) == Find(c, sm) = -1 \/ Find(c, em) = -1

\* C1: whenever a marker of either region cannot be found when its splice is
\* attempted (the selected region in the file as read, the full-list region
\* in the document the first splice returned), update_essays_html returns
\* False, does not open the file for writing and leaves its content as it
\* was; and the file is opened for writing only when both splices returned a
\* document.
C1_NoPartialWrite ==
    up_pc = "returned" =>
        LET missing1 == Missing(file_before, SELECTED_START, SELECTED_END)
            c1 == replace_between_markers(file_before, SELECTED_START,
                                          SELECTED_END, arg_selected)
            missing2 == ~missing1 /\ Missing(c1.val, ALL_START, ALL_END)
        IN  /\ (missing1 \/ missing2) =>
                 (ret = FALSE /\ ~opened_w /\ file = file_before)
            /\ opened_w => (~missing1 /\ ~missing2 /\ ret = TRUE)

\* C1 witness: the selected region was spliced, the full-list markers were
\* then missing, and the call returned False with the file as it was
C1_Witness ==
    /\ up_pc = "returned"
    /\ ~Missing(file_before, SELECTED_START, SELECTED_END)
    /\ Missing(replace_between_markers(file_before, SELECTED_START,
                                       SELECTED_END, arg_selected).val,
               ALL_START, ALL_END)
    /\ ret = FALSE /\ file = file_before /\ ~opened_w

\* C2 (as claimed): for every document that contains both markers and all
\* bodies B and B2, splicing B and then B2 gives the document that splicing
\* B2 directly gives.
C2_ResplicingIsDirect ==
    (sp_pc = "done" /\ ~Missing(content, start_marker, end_marker)) =>
        twice = direct

\* C3 (as claimed): for every document in which both markers are found, the
\* start offset strictly precedes the end offset, and the result is the
\* original up to and including the start marker, a newline, the body, a
\* newline and the indentation, then the original from the end marker on.
C3_SpanReplaced ==
    (sp_pc = "spliced" /\ ~Missing(content, start_marker, end_marker)) =>
        LET start == Find(content, start_marker)
            end   == Find(content, end_marker)
        IN  /\ start < end
            /\ ~once.isNone
            /\ once.val = SubSeq(content, 1, start + Len(start_marker))
                          \o <<"\n">> \o html1 \o <<"\n", "            ">>
                          \o SubSeq(content, end + 1, Len(content))

(***************************************************************************)
(* Claims about the bibliography pipeline.                                 *)
(***************************************************************************)
Count(ps, r) == Cardinality({ i \in 1..Len(ps) : ps[i] = r })

IsPermutation(ps, qs) ==
    /\ Len(ps) = Len(qs)
    /\ \A i \in 1..Len(qs) : Count(ps, qs[i]) = Count(qs, qs[i])

\* the year of a record as a number, 0 for a record without a year
KeyOf(p) == IF "year" \in DOMAIN p THEN IntOf(p["year"]) ELSE 0

\* the records of key 0 of a list, in the order of the list
RECURSIVE KeyZeroOnly(_)
KeyZeroOnly(ps) ==
    IF ps = <<>> THEN <<>>
    ELSE (IF KeyOf(Head(ps)) = 0 THEN <<Head(ps)>> ELSE <<>>)
         \o KeyZeroOnly(Tail(ps))

DescendingByKey(ps) ==
    \A i, j \in 1..Len(ps) : i < j => KeyOf(ps[i]) >= KeyOf(ps[j])

\* C4 (as claimed): the list parse_bib_file returns is a permutation of the
\* non-empty records in descending order of the year, and a record without
\* a year comes after every record that has a 4-digit year.
C4_YearlessAfterEveryYear ==
    bib_pc # "start" =>
        /\ IsPermutation(papers, NonEmptyRecords(entries))
        /\ DescendingByKey(papers)
        /\ \A i, j \in 1..Len(papers) :
             ("year" \notin DOMAIN papers[i] /\ "year" \in DOMAIN papers[j]) => j < i

\* C4 (amended): the list parse_bib_file returns is a permutation of the
\* non-empty records in descending order of the key (the year as a number,
\* 0 without a year); a record without a year comes after every record
\* whose year is greater than 0, and the records of key 0 (no year, or the
\* year 0000) keep the order they had in the bibliography.
C4_SortedByYearKey ==
    bib_pc # "start" =>
        /\ IsPermutation(papers, NonEmptyRecords(entries))
        /\ DescendingByKey(papers)
        /\ \A i, j \in 1..Len(papers) :
             ("year" \notin DOMAIN papers[i] /\ KeyOf(papers[j]) > 0) => j < i
        /\ KeyZeroOnly(papers) = KeyZeroOnly(NonEmptyRecords(entries))

\* C4 witness: a record without a year that came first in the bibliography
\* is returned after a record with a year
C4_Witness ==
    /\ bib_pc = "parsed"
    /\ Len(entries) = 2 /\ Len(papers) = 2
    /\ DOMAIN entries[1] # {} /\ "year" \notin DOMAIN entries[1]
    /\ "year" \in DOMAIN papers[1] /\ "year" \notin DOMAIN papers[2]

\* C6: the title of a record links to the arXiv page when the record has an
\* arXiv id, with or without a DOI; else to the DOI when it has one; else
\* the title is an unlinked span.
C6_LinkPrecedence ==
    fm_pc = "formatted" =>
        LET line == SubSeq(fragment, 3, Len(fragment))
        IN  /\ "arxiv" \in DOMAIN paper =>
                 SubSeq(line, 1, 3) =
                     <<"<a href=\"", "https://arxiv.org/abs/">> \o paper["arxiv"]
            /\ ("arxiv" \notin DOMAIN paper /\ "doi" \in DOMAIN paper) =>
                 SubSeq(line, 1, 3) =
                     <<"<a href=\"", "https://doi.org/">> \o paper["doi"]
            /\ ("arxiv" \notin DOMAIN paper /\ "doi" \notin DOMAIN paper) =>
                 line[1] = "<span class=\"paper-title\">"

\* C6 witness: a record with an arXiv id and a DOI has been formatted
C6_Witness ==
    /\ fm_pc = "formatted"
    /\ "arxiv" \in DOMAIN paper /\ "doi" \in DOMAIN paper
    /\ fragment[4] = "https://arxiv.org/abs/"

\* C9 (as claimed): clean_latex applied to its own result changes nothing,
\* and its result is the same in whatever order the four replacements of
\* the table are applied.
C9_IdempotentInAnyOrder ==
    lx_pc = "done" => (again = cleaned /\ reordered = cleaned)

\* the part of C9 that the code satisfies: the order of the table
C9_OrderIndependent ==
    lx_pc = "done" => reordered = cleaned

(***************************************************************************)
(* Claims about the feed pipeline.                                         *)
(***************************************************************************)
\* some post of ps has the slug s
IsKey(ps, s) ==
    \E i \in 1..Len(ps) : ~SlugOf(ps[i].link).isNone /\ SlugOf(ps[i].link).val = s

\* the slugs of SELECTED_SLUGS that are keys of the working set, in the
\* configured order
ResolvedSlugs ==
    LET Resolved(s) == IsKey(posts, s)
    IN  SelectSeq(SELECTED_SLUGS, Resolved)

\* C5: the curated list is the subsequence of SELECTED_SLUGS whose slug is
\* the key of some post of the working set, in the configured order whatever
\* the order of the feed; a slug whose fallback fetch failed has no card.
C5_CuratedInConfiguredOrder ==
    pc = "done" =>
        /\ Len(selected) = Len(ResolvedSlugs)
        /\ \A i \in 1..Len(selected) :
             /\ SlugOf(selected[i].link) = Some(ResolvedSlugs[i])
             /\ \E j \in 1..Len(posts) : posts[j] = selected[i]
        /\ \A e \in 1..Len(fetch_log) :
             fetch_log[e].outcome.kind = "error" =>
                 \A i \in 1..Len(selected) :
                     SlugOf(selected[i].link).val # fetch_log[e].slug

\* C5 witness: the feed lists the second selected essay before the first, a
\* fallback fetch failed, and the curated list starts with the first essay
C5_Witness ==
    /\ pc = "done"
    /\ Len(xml_text.items) = 2
    /\ SlugOf(posts[1].link) = Some(SELECTED_SLUGS[2])
    /\ SlugOf(posts[2].link) = Some(SELECTED_SLUGS[1])
    /\ \E e \in 1..Len(fetch_log) : fetch_log[e].outcome.kind = "error"
    /\ Len(selected) >= 2
    /\ selected[1] = posts[2] /\ selected[2] = posts[1]

\* the bucket URL the pattern finds in u: it starts at i and ends at j
IsBucketUrl(u, i, j) ==
    /\ 1 <= i /\ i < j /\ j <= Len(u)
    /\ u[i] = S3Prefix
    /\ \A x \in (i + 1)..j : u[x] \notin { " ", "\"", "&" }
    /\ j = Len(u) \/ u[j + 1] \in { " ", "\"", "&" }
    /\ \A x \in 1..(i - 1) :
         ~(u[x] = S3Prefix /\ u[x + 1] \notin { " ", "\"", "&" })

\* C7: fetch_og_image returns without raising, and returns "" or the CDN
\* prefix followed by the bucket URL found in the decoded og:image; an
\* exception, a page without og:image and an og:image without a bucket URL
\* all give "", never the og:image itself.
C7_EmptyOrCdnUrl ==
    og_pc = "returned" =>
        LET dec == IF og_outcome.kind = "page" /\ ~og_outcome.og.isNone
                   THEN unquote(og_outcome.og.val) ELSE <<>>
            found == \E i, j \in 1..Len(dec) : IsBucketUrl(dec, i, j)
        IN  /\ ~og_result.raised
            /\ \/ og_result.val = <<>>
               \/ \E i, j \in 1..Len(dec) :
                    /\ IsBucketUrl(dec, i, j)
                    /\ og_result.val = SUBSTACK_CDN \o SubSeq(dec, i, j)
            /\ og_outcome.kind = "error" => og_result.val = <<>>
            /\ (og_outcome.kind = "page" /\ og_outcome.og.isNone) => og_result.val = <<>>
            /\ ~found => og_result.val = <<>>
            /\ found => og_result.val # <<>>

\* C7 witness: the page has an og:image that holds no bucket URL, and the
\* function returned ""
C7_Witness ==
    /\ og_pc = "returned"
    /\ og_outcome.kind = "page" /\ ~og_outcome.og.isNone
    /\ \A i \in 1..Len(og_outcome.og.val) : unquote(og_outcome.og.val)[i] # S3Prefix
    /\ og_result.val = <<>> /\ ~og_result.raised

\* C8 (as claimed): a run completes or terminates on a failure of the feed
\* fetch; no other step terminates it.
C8_OnlyFeedFetchTerminates ==
    /\ pc = "crashed" => crash = "fetch_feed"
    /\ pc = "done" => msg \in { "Done!", "Failed to update." }

\* C8 (amended): a run completes, printing its success or failure message,
\* or terminates on an unhandled failure of the feed fetch, of parsing the
\* feed (a body that is not well-formed XML) or of the file I/O of
\* update_essays_html (the target file is missing);
\* no failure of a per-post image fetch or of a direct fallback fetch
\* terminates the run, and in every other state a step of the run is due.
C8_TerminatingSteps ==
    /\ pc = "crashed" =>
         /\ crash \in { "fetch_feed", "parse_posts", "update_essays_html" }
         /\ crash = "parse_posts" => ~xml_text.wellformed
         /\ crash = "update_essays_html" => essays.isNone
    /\ pc = "done" => msg \in { "Done!", "Failed to update." }
    /\ pc \in { "start", "fetched", "slugs", "images", "done", "crashed" }
    /\ pc = "slugs" => slug_i \in 1..Len(SELECTED_SLUGS)
    /\ pc = "images" => post_i \in 1..(Len(posts) + 1)

\* C8 witness: a run in which an image fetch and a fallback fetch failed has
\* reached the write step and printed its message
C8_Witness ==
    /\ pc = "done" /\ msg = "Done!"
    /\ \E i \in 1..Len(warnings) : warnings[i] = "could not fetch OG image"
    /\ \E i \in 1..Len(warnings) : warnings[i] = "could not fetch page"

\* the post a successful fallback fetch of a slug appends
Synthesized(e) ==
    [ title       |-> IF e.outcome.title.isNone THEN e.slug
                      ELSE unescape(e.outcome.title.val),
      link        |-> <<Site, "/p/">> \o e.slug,
      description |-> IF e.outcome.desc.isNone THEN <<>>
                      ELSE unescape(e.outcome.desc.val),
      date        |-> <<>>,
      image       |-> <<>> ]

RECURSIVE SynthesizedPosts(_)
SynthesizedPosts(log) ==
    IF log = <<>> THEN <<>>
    ELSE (IF Head(log).outcome.kind = "error" THEN <<>> ELSE <<Synthesized(Head(log))>>)
         \o SynthesizedPosts(Tail(log))

\* the slugs among the first m of SELECTED_SLUGS that are not in the feed
AbsentSlugs(m) ==
    LET feed == parse_posts(xml_text.items)
        Absent(s) == ~IsKey(feed, s)
    IN  SelectSeq(SubSeq(SELECTED_SLUGS, 1, m), Absent)

\* C10: a direct fetch is made for a slug of SELECTED_SLUGS if and only if it
\* is absent from the slugs of the feed; a successful fetch appends one
\* synthesized post (title from og:title or the slug, description from
\* og:description or empty, no date, no image) after the feed posts and
\* before the lookup by slug is built, a failed one appends nothing: the
\* full list is the feed posts in feed order, then the synthesized posts in
\* the configured order.
C10_FallbackFetches ==
    pc \in { "slugs", "images", "done" } =>
        LET done == IF pc = "slugs" THEN slug_i - 1 ELSE Len(SELECTED_SLUGS)
            blank == [ i \in 1..Len(posts) |-> [posts[i] EXCEPT !.image = <<>>] ]
        IN  /\ [ i \in 1..Len(fetch_log) |-> fetch_log[i].slug ] = AbsentSlugs(done)
            /\ blank = parse_posts(xml_text.items) \o SynthesizedPosts(fetch_log)
            /\ pc = "slugs" => (blank = posts /\ selected = <<>>)

\* C10 witness: with a feed of two posts, a fallback fetch failed, one gave
\* a page without og:title, and the run has finished
C10_Witness ==
    /\ pc = "done"
    /\ Len(xml_text.items) = 2
    /\ \E e \in 1..Len(fetch_log) : fetch_log[e].outcome.kind = "error"
    /\ \E e \in 1..Len(fetch_log) :
         /\ fetch_log[e].outcome.kind = "page" /\ fetch_log[e].outcome.title.isNone
         /\ \E i \in 3..Len(posts) : posts[i].title = fetch_log[e].slug
    /\ Len(posts) = 2 + Len(fetch_log) - 1

====
